---- MODULE Spec2Model ----
(***************************************************************************)
(* Model of the WhatsApp webhook of src/server.js: the POST /whatsapp      *)
(* handler, the JSON store it reads and rewrites (data.json), and the      *)
(* string functions its dispatcher is built from.                          *)
(*                                                                         *)
(* Texts are sequences of one-character strings, so that toLowerCase,      *)
(* trim, startsWith, split, parseInt and the regular expressions are       *)
(* modelled by what they do to the characters.                             *)
(* An optional JavaScript value (undefined / null / a value v) is the      *)
(* empty sequence or the one-element sequence <<v>>.                       *)
(***************************************************************************)
EXTENDS Integers, Sequences, FiniteSets, TLC

VARIABLES
  file,      \* the data last written to data.json in full
  intact,    \* whether data.json holds that text whole (JSON.parse succeeds)
  prev,      \* the data the last request read
  req,       \* the last request answered
  twiml,     \* the reply segments sent for it
  status,    \* the HTTP status of the response to it (0: no request yet)
  branch,    \* the case of the switch that ran for it
  inflight,  \* requests received whose callback has not started
  running,   \* callbacks that have read data.json and not yet responded
  serial     \* the data that handling the answered requests one by one gives

vars == <<file, intact, prev, req, twiml, status, branch, inflight, running, serial>>

----------------------------------------------------------------------------
(* Bounds of the model *)

MaxPrice == 10      \* SpecSession: item 1 has a price in 1..MaxPrice
MaxOffer == 14      \* SpecSession: "offer n" is sent for n in 0..MaxOffer
MaxId    == 3       \* "view n", "n", "negotiate n" are sent for n in 1..MaxId

----------------------------------------------------------------------------
(* Optional values *)

Undefined == <<>>
Null      == <<>>
NaN       == <<>>
Some(v)   == <<v>>

----------------------------------------------------------------------------
(* Characters and the JavaScript string functions the handler uses *)

UpperCase == <<"A","B","C","D","E","F","G","H","I","J","K","L","M",
               "N","O","P","Q","R","S","T","U","V","W","X","Y","Z">>
LowerCase == <<"a","b","c","d","e","f","g","h","i","j","k","l","m",
               "n","o","p","q","r","s","t","u","v","w","x","y","z">>
Digits    == <<"0","1","2","3","4","5","6","7","8","9">>

InSeq(c, s) == \E i \in 1..Len(s) : s[i] = c
IndexOf(c, s) == CHOOSE i \in 1..Len(s) : s[i] = c

IsUpper(c) == InSeq(c, UpperCase)
IsLower(c) == InSeq(c, LowerCase)
IsDigit(c) == InSeq(c, Digits)
\* \s of a regular expression, and the characters trim() removes
IsSpace(c) == c \in {" ", "\t", "\n", "\r"}

DigitVal(c) == IndexOf(c, Digits) - 1

\* String.prototype.toLowerCase
ToLowerChar(c) == IF IsUpper(c) THEN LowerCase[IndexOf(c, UpperCase)] ELSE c
ToLowerCase(s) == [i \in 1..Len(s) |-> ToLowerChar(s[i])]

\* String.prototype.trim
RECURSIVE TrimStart(_)
TrimStart(s) == IF s # <<>> /\ IsSpace(Head(s)) THEN TrimStart(Tail(s)) ELSE s
RECURSIVE TrimEnd(_)
TrimEnd(s) == IF s # <<>> /\ IsSpace(s[Len(s)])
              THEN TrimEnd(SubSeq(s, 1, Len(s) - 1)) ELSE s
Trim(s) == TrimEnd(TrimStart(s))

\* String.prototype.startsWith
StartsWith(s, p) == Len(s) >= Len(p) /\ SubSeq(s, 1, Len(p)) = p

\* String.prototype.split(" "): the pieces between single spaces
RECURSIVE SplitFrom(_, _)
SplitFrom(s, cur) ==
  IF s = <<>> THEN <<cur>>
  ELSE IF Head(s) = " " THEN <<cur>> \o SplitFrom(Tail(s), <<>>)
  ELSE SplitFrom(Tail(s), Append(cur, Head(s)))
Split(s) == SplitFrom(s, <<>>)

\* incomingMsg.split(" ")[1]: the second piece, or undefined
SplitAt1(s) == IF Len(Split(s)) >= 2 THEN Some(Split(s)[2]) ELSE Undefined

\* /^\d+$/.test(s)
AllDigits(s) == s # <<>> /\ \A i \in 1..Len(s) : IsDigit(s[i])

\* parseInt(str, 10) of a string: leading white space is skipped, then an
\* optional sign, then the longest run of digits; NaN when that run is empty
RECURSIVE DigitRun(_)
DigitRun(s) == IF s # <<>> /\ IsDigit(Head(s))
               THEN <<Head(s)>> \o DigitRun(Tail(s)) ELSE <<>>
RECURSIVE DecValue(_)
DecValue(ds) == IF ds = <<>> THEN 0
                ELSE 10 * DecValue(SubSeq(ds, 1, Len(ds) - 1))
                     + DigitVal(ds[Len(ds)])
ParseIntStr(str) ==
  LET s    == TrimStart(str)
      neg  == s # <<>> /\ Head(s) = "-"
      rest == IF s # <<>> /\ Head(s) \in {"-", "+"} THEN Tail(s) ELSE s
      run  == DigitRun(rest)
  IN IF run = <<>> THEN NaN
     ELSE Some(IF neg THEN 0 - DecValue(run) ELSE DecValue(run))
\* parseInt of an optional string: parseInt(undefined, 10) is NaN
ParseInt(opt) == IF opt = Undefined THEN NaN ELSE ParseIntStr(opt[1])

----------------------------------------------------------------------------
(* The literals of the dispatcher *)

START        == <<"s","t","a","r","t">>
RECOMMEND    == <<"r","e","c","o","m","m","e","n","d">>
FARMING      == <<"f","a","r","m","i","n","g">>
LANDSCAPING  == <<"l","a","n","d","s","c","a","p","i","n","g">>
CONSTRUCTION == <<"c","o","n","s","t","r","u","c","t","i","o","n">>
BROWSE       == <<"b","r","o","w","s","e">>
VIEW         == <<"v","i","e","w">>
NEGOTIATE    == <<"n","e","g","o","t","i","a","t","e">>
OFFER        == <<"o","f","f","e","r">>

UseCases == {FARMING, LANDSCAPING, CONSTRUCTION}

NameCollection  == "name_collection"
OfferCollection == "offer_collection"

----------------------------------------------------------------------------
(* data.json: the catalog and the initial session collection *)

Phones == {"+1", "+2"}

\* data.tractors: the useCase is stored capitalised, as the replies print it
Catalog(p) ==
  << [id |-> 1, price |-> p,  useCase |-> <<"F">> \o Tail(FARMING)],
     [id |-> 2, price |-> 15, useCase |-> <<"C">> \o Tail(CONSTRUCTION)] >>

\* a user record as line 106 builds it: no name yet, no negotiation
NewUser(phone) == [phone |-> phone, currentNegotiation |-> Null, name |-> Undefined]

\* data.users at start-up: empty, or a user registered earlier
InitialUsers == { <<>>, <<NewUser("+1")>> }

----------------------------------------------------------------------------
(* Lookups in the loaded data *)

\* data.users.find((u) => u.phone === userNumber): the index of the first
\* record with that phone, 0 when there is none
FindUser(users, userNumber) ==
  IF \E i \in 1..Len(users) : users[i].phone = userNumber
  THEN CHOOSE i \in 1..Len(users) :
         /\ users[i].phone = userNumber
         /\ \A j \in 1..(i - 1) : users[j].phone # userNumber
  ELSE 0

\* data.tractors.find((t) => t.id === n): the first item with that id, or
\* undefined; NaN equals no id
FindTractor(tractors, n) ==
  IF n # NaN /\ \E i \in 1..Len(tractors) : tractors[i].id = n[1]
  THEN Some(tractors[CHOOSE i \in 1..Len(tractors) :
                       /\ tractors[i].id = n[1]
                       /\ \A j \in 1..(i - 1) : tractors[j].id # n[1]])
  ELSE Undefined

\* the ids of the items of a list, in store order
RECURSIVE IdsOf(_)
IdsOf(ts) == IF ts = <<>> THEN <<>> ELSE <<Head(ts).id>> \o IdsOf(Tail(ts))

\* data.tractors.filter(t => t.useCase.toLowerCase() === incomingMsg)
RECURSIVE FilterUseCase(_, _)
FilterUseCase(ts, incomingMsg) ==
  IF ts = <<>> THEN <<>>
  ELSE (IF ToLowerCase(Head(ts).useCase) = incomingMsg THEN <<Head(ts)>> ELSE <<>>)
       \o FilterUseCase(Tail(ts), incomingMsg)

----------------------------------------------------------------------------
(* Reply segments: twiml.message(...) appends one.  A segment keeps the    *)
(* template it was built from and the values interpolated into it.         *)

Msg(kind, ids, amount, name) ==
  [kind |-> kind, ids |-> ids, amount |-> amount, name |-> name]
Text(kind) == Msg(kind, <<>>, 0, Undefined)

\* what one run of the handler yields: the data object in memory at the end,
\* whether writeData(data) was called, the reply, the case that ran, and
\* whether the run reached res.end() or threw before it
Result(data, wrote, segments, case) ==
  [data |-> data, wrote |-> wrote, twiml |-> segments, branch |-> case,
   threw |-> FALSE]

\* a TypeError thrown in a case: nothing was written, res.end() is not reached
Threw(data, case) ==
  [data |-> data, wrote |-> FALSE, twiml |-> <<>>, branch |-> case, threw |-> TRUE]

\* isValidName: /^[a-zA-Z\s\-']+$/.test(name) && name.trim().length >= 2
NameChar(c) == IsLower(c) \/ IsUpper(c) \/ IsSpace(c) \/ c \in {"-", "'"}
\* isValidName without the test of the trimmed length
isValidNameAnyLength(name) ==
  name # <<>> /\ \A i \in 1..Len(name) : NameChar(name[i])

isValidName(name) ==
  /\ name # <<>>
  /\ \A i \in 1..Len(name) : NameChar(name[i])
  /\ Len(Trim(name)) >= 2

\* the 90% comparison against the threshold rounded down
OfferAcceptedFloor(offerAmount, price) == offerAmount >= (9 * price) \div 10

\* the 90% comparison made strict
OfferAcceptedStrict(offerAmount, price) == 10 * offerAmount > 9 * price

\* offerAmount >= offerTractor.price * 0.9, for an integer amount and an
\* integer price.  The double nearest to 0.9 exceeds 0.9 by 0.1 * 2^-52, so
\* price * 0.9 rounds to 0.9 * price whenever that is an integer and stays
\* strictly between the neighbouring integers otherwise: the comparison of
\* the doubles is the comparison 10 * amount >= 9 * price of the integers.
OfferAccepted(offerAmount, price) == 10 * offerAmount >= 9 * price

\* (offerTractor.price * 0.9).toFixed(2), in hundredths
MinimumOffer(price) == 90 * price

----------------------------------------------------------------------------
(* The cases of the switch, in the order of the source *)

CaseStart(data) == Result(data, FALSE, <<Text("welcome")>>, "start")

CaseRecommend(data) == Result(data, FALSE, <<Text("use_case_prompt")>>, "recommend")

CaseUseCase(data, incomingMsg) ==
  Result(data, FALSE,
         <<Msg("top_tractors", IdsOf(FilterUseCase(data.tractors, incomingMsg)),
               0, Some(incomingMsg))>>,
         "use_case")

CaseBrowse(data) ==
  Result(data, FALSE, <<Msg("tractors_for_sale", IdsOf(data.tractors), 0, Undefined)>>,
         "browse")

\* the argument of view without the fallback to the whole message
ViewArgumentSecondPiece(incomingMsg) == SplitAt1(incomingMsg)

\* parseInt(incomingMsg.split(" ")[1] || incomingMsg, 10): an undefined or
\* empty second piece falls back to the whole message
ViewArgument(incomingMsg) ==
  IF SplitAt1(incomingMsg) \in {Undefined, Some(<<>>)}
  THEN Some(incomingMsg) ELSE SplitAt1(incomingMsg)

CaseView(data, incomingMsg) ==
  LET tractorId == ParseInt(ViewArgument(incomingMsg))
      tractor   == FindTractor(data.tractors, tractorId)
  IN IF tractor # Undefined
     THEN Result(data, FALSE,
                 << Msg("details", <<tractor[1].id>>, tractor[1].price, Undefined),
                    Msg("image", <<tractor[1].id>>, 0, Undefined),
                    Text("interested") >>,
                 "view")
     ELSE Result(data, FALSE, <<Text("not_found")>>, "view")

\* CaseNegotiate starting a negotiation only when none is in progress
CaseNegotiateKeep(data, userNumber, incomingMsg) ==
  LET negotiateId      == ParseInt(SplitAt1(incomingMsg))
      negotiateTractor == FindTractor(data.tractors, negotiateId)
      pushed == IF FindUser(data.users, userNumber) = 0
                THEN Append(data.users, NewUser(userNumber))
                ELSE data.users
      i      == FindUser(pushed, userNumber)
      users  == IF pushed[i].currentNegotiation # Null THEN pushed
                ELSE [pushed EXCEPT ![i].currentNegotiation =
                        Some([tractorId |-> negotiateId[1], stage |-> NameCollection])]
  IN IF negotiateTractor # Undefined
     THEN Result([data EXCEPT !.users = users], TRUE,
                 <<Msg("negotiating", <<negotiateTractor[1].id>>, 0, Undefined)>>,
                 "negotiate")
     ELSE Result(data, FALSE, <<Text("not_found")>>, "negotiate")

\* CaseNegotiate registering the user and writing before the item is looked up
CaseNegotiateEager(data, userNumber, incomingMsg) ==
  LET negotiateId      == ParseInt(SplitAt1(incomingMsg))
      negotiateTractor == FindTractor(data.tractors, negotiateId)
      pushed == IF FindUser(data.users, userNumber) = 0
                THEN Append(data.users, NewUser(userNumber))
                ELSE data.users
      i      == FindUser(pushed, userNumber)
      users  == [pushed EXCEPT ![i].currentNegotiation =
                   Some([tractorId |-> negotiateId[1], stage |-> NameCollection])]
  IN IF negotiateTractor # Undefined
     THEN Result([data EXCEPT !.users = users], TRUE,
                 <<Msg("negotiating", <<negotiateTractor[1].id>>, 0, Undefined)>>,
                 "negotiate")
     ELSE Result([data EXCEPT !.users = pushed], TRUE, <<Text("not_found")>>,
                 "negotiate")

\* CaseNegotiate pushing a record without the test of line 105
CaseNegotiatePush(data, userNumber, incomingMsg) ==
  LET negotiateId      == ParseInt(SplitAt1(incomingMsg))
      negotiateTractor == FindTractor(data.tractors, negotiateId)
      users  == Append(data.users,
                  [NewUser(userNumber) EXCEPT !.currentNegotiation =
                     Some([tractorId |-> negotiateId[1], stage |-> NameCollection])])
  IN IF negotiateTractor # Undefined
     THEN Result([data EXCEPT !.users = users], TRUE,
                 <<Msg("negotiating", <<negotiateTractor[1].id>>, 0, Undefined)>>,
                 "negotiate")
     ELSE Result(data, FALSE, <<Text("not_found")>>, "negotiate")

\* CaseNegotiate taking a user who already has a name straight to the offer
CaseNegotiateSkipName(data, userNumber, incomingMsg) ==
  LET negotiateId      == ParseInt(SplitAt1(incomingMsg))
      negotiateTractor == FindTractor(data.tractors, negotiateId)
      pushed == IF FindUser(data.users, userNumber) = 0
                THEN Append(data.users, NewUser(userNumber))
                ELSE data.users
      i      == FindUser(pushed, userNumber)
      users  == [pushed EXCEPT ![i].currentNegotiation =
                   Some([tractorId |-> negotiateId[1],
                         stage |-> IF pushed[i].name = Undefined
                                   THEN NameCollection ELSE OfferCollection])]
  IN IF negotiateTractor # Undefined
     THEN Result([data EXCEPT !.users = users], TRUE,
                 <<Msg("negotiating", <<negotiateTractor[1].id>>, 0, Undefined)>>,
                 "negotiate")
     ELSE Result(data, FALSE, <<Text("not_found")>>, "negotiate")

\* CaseNegotiate testing only that the id is a number, not that an item has it
CaseNegotiateAnyId(data, userNumber, incomingMsg) ==
  LET negotiateId      == ParseInt(SplitAt1(incomingMsg))
      pushed == IF FindUser(data.users, userNumber) = 0
                THEN Append(data.users, NewUser(userNumber))
                ELSE data.users
      i      == FindUser(pushed, userNumber)
      users  == [pushed EXCEPT ![i].currentNegotiation =
                   Some([tractorId |-> negotiateId[1], stage |-> NameCollection])]
  IN IF negotiateId # NaN
     THEN Result([data EXCEPT !.users = users], TRUE,
                 <<Msg("negotiating", <<negotiateId[1]>>, 0, Undefined)>>,
                 "negotiate")
     ELSE Result(data, FALSE, <<Text("not_found")>>, "negotiate")

CaseNegotiate(data, userNumber, incomingMsg) ==
  LET negotiateId      == ParseInt(SplitAt1(incomingMsg))
      negotiateTractor == FindTractor(data.tractors, negotiateId)
      pushed == IF FindUser(data.users, userNumber) = 0
                THEN Append(data.users, NewUser(userNumber))
                ELSE data.users
      i      == FindUser(pushed, userNumber)
      users  == [pushed EXCEPT ![i].currentNegotiation =
                   Some([tractorId |-> negotiateId[1], stage |-> NameCollection])]
  IN IF negotiateTractor # Undefined
     THEN Result([data EXCEPT !.users = users], TRUE,
                 <<Msg("negotiating", <<negotiateTractor[1].id>>, 0, Undefined)>>,
                 "negotiate")
     ELSE Result(data, FALSE, <<Text("not_found")>>, "negotiate")

\* user && user.currentNegotiation && user.currentNegotiation.stage === s
InStage(users, userNumber, s) ==
  LET i == FindUser(users, userNumber)
  IN /\ i # 0
     /\ users[i].currentNegotiation # Null
     /\ users[i].currentNegotiation[1].stage = s

\* CaseNameCollection updating the first record instead of the sender's
CaseNameCollectionFirst(data, userNumber, incomingMsg) ==
  LET users == [data.users EXCEPT ![1].name = Some(Trim(incomingMsg)),
                                  ![1].currentNegotiation =
                                     IF @ = Null THEN @
                                     ELSE Some([@[1] EXCEPT !.stage = OfferCollection])]
  IN IF isValidName(incomingMsg)
     THEN Result([data EXCEPT !.users = users], TRUE,
                 <<Msg("hello", <<>>, 0, Some(Trim(incomingMsg)))>>,
                 "name_collection")
     ELSE Result(data, FALSE, <<Text("invalid_name")>>, "name_collection")

\* CaseNameCollection advancing the stage without storing the name
CaseNameCollectionNoName(data, userNumber, incomingMsg) ==
  LET i     == FindUser(data.users, userNumber)
      users == [data.users EXCEPT ![i].currentNegotiation[1].stage = OfferCollection]
  IN IF isValidName(incomingMsg)
     THEN Result([data EXCEPT !.users = users], TRUE,
                 <<Msg("hello", <<>>, 0, data.users[i].name)>>,
                 "name_collection")
     ELSE Result(data, FALSE, <<Text("invalid_name")>>, "name_collection")

CaseNameCollection(data, userNumber, incomingMsg) ==
  LET i     == FindUser(data.users, userNumber)
      users == [data.users EXCEPT ![i].name = Some(Trim(incomingMsg)),
                                  ![i].currentNegotiation[1].stage = OfferCollection]
  IN IF isValidName(incomingMsg)
     THEN Result([data EXCEPT !.users = users], TRUE,
                 <<Msg("hello", <<>>, 0, Some(Trim(incomingMsg)))>>,
                 "name_collection")
     ELSE Result(data, FALSE, <<Text("invalid_name")>>, "name_collection")

\* CaseOffer dropping the negotiation, and saving, when the offer is too low
CaseOfferAbandon(data, userNumber, incomingMsg) ==
  LET i            == FindUser(data.users, userNumber)
      userOffer    == data.users[i]
      offerAmount  == ParseInt(SplitAt1(incomingMsg))
      offerTractor == FindTractor(data.tractors,
                                  Some(userOffer.currentNegotiation[1].tractorId))
      cleared      == [data EXCEPT !.users[i].currentNegotiation = Null]
  IN IF InStage(data.users, userNumber, OfferCollection)
     THEN IF offerAmount = NaN
          THEN Result(data, FALSE, <<Text("invalid_number")>>, "offer")
          \* offerTractor.price of an undefined offerTractor
          ELSE IF offerTractor = Undefined THEN Threw(data, "offer")
          ELSE IF OfferAccepted(offerAmount[1], offerTractor[1].price)
          THEN Result(cleared, FALSE,
                      <<Msg("deal_accepted", <<offerTractor[1].id>>, offerAmount[1],
                            userOffer.name)>>,
                      "offer")
          ELSE Result(cleared, TRUE,
                      <<Msg("offer_too_low", <<>>, MinimumOffer(offerTractor[1].price),
                            Undefined)>>,
                      "offer")
     ELSE Result(data, FALSE, <<Text("no_active_negotiation")>>, "offer")

\* CaseOffer answering an offer without a negotiation like the default case
CaseOfferHelp(data, userNumber, incomingMsg) ==
  LET i            == FindUser(data.users, userNumber)
      userOffer    == data.users[i]
      offerAmount  == ParseInt(SplitAt1(incomingMsg))
      offerTractor == FindTractor(data.tractors,
                                  Some(userOffer.currentNegotiation[1].tractorId))
      cleared      == [data EXCEPT !.users[i].currentNegotiation = Null]
  IN IF InStage(data.users, userNumber, OfferCollection)
     THEN IF offerAmount = NaN
          THEN Result(data, FALSE, <<Text("invalid_number")>>, "offer")
          ELSE IF offerTractor = Undefined THEN Threw(data, "offer")
          ELSE IF OfferAccepted(offerAmount[1], offerTractor[1].price)
          THEN Result(cleared, FALSE,
                      <<Msg("deal_accepted", <<offerTractor[1].id>>, offerAmount[1],
                            userOffer.name)>>,
                      "offer")
          ELSE Result(data, FALSE,
                      <<Msg("offer_too_low", <<>>, MinimumOffer(offerTractor[1].price),
                            Undefined)>>,
                      "offer")
     ELSE Result(data, FALSE, <<Text("help")>>, "offer")

CaseOffer(data, userNumber, incomingMsg) ==
  LET i            == FindUser(data.users, userNumber)
      userOffer    == data.users[i]
      offerAmount  == ParseInt(SplitAt1(incomingMsg))
      offerTractor == FindTractor(data.tractors,
                                  Some(userOffer.currentNegotiation[1].tractorId))
      \* userOffer.currentNegotiation = null, in memory only: this case never
      \* calls writeData
      cleared      == [data EXCEPT !.users[i].currentNegotiation = Null]
  IN IF InStage(data.users, userNumber, OfferCollection)
     THEN IF offerAmount = NaN
          THEN Result(data, FALSE, <<Text("invalid_number")>>, "offer")
          \* offerTractor.price of an undefined offerTractor
          ELSE IF offerTractor = Undefined THEN Threw(data, "offer")
          ELSE IF OfferAccepted(offerAmount[1], offerTractor[1].price)
          THEN Result(cleared, FALSE,
                      <<Msg("deal_accepted", <<offerTractor[1].id>>, offerAmount[1],
                            userOffer.name)>>,
                      "offer")
          ELSE Result(data, FALSE,
                      <<Msg("offer_too_low", <<>>, MinimumOffer(offerTractor[1].price),
                            Undefined)>>,
                      "offer")
     ELSE Result(data, FALSE, <<Text("no_active_negotiation")>>, "offer")

\* the default case without its twiml.message
CaseDefaultSilent(data) == Result(data, FALSE, <<>>, "default")

CaseDefault(data) == Result(data, FALSE, <<Text("help")>>, "default")

\* incomingMsg = req.body.Body ? req.body.Body.toLowerCase().trim() : ''
IncomingMsg(Body) == IF Body = <<>> THEN <<>> ELSE Trim(ToLowerCase(Body))

\* switch (true): the first case whose condition holds runs
Dispatch(data, userNumber, incomingMsg) ==
  IF incomingMsg = START THEN CaseStart(data)
  ELSE IF incomingMsg = RECOMMEND THEN CaseRecommend(data)
  ELSE IF incomingMsg \in UseCases THEN CaseUseCase(data, incomingMsg)
  ELSE IF incomingMsg = BROWSE THEN CaseBrowse(data)
  ELSE IF StartsWith(incomingMsg, VIEW) \/ AllDigits(incomingMsg)
       THEN CaseView(data, incomingMsg)
  ELSE IF StartsWith(incomingMsg, NEGOTIATE)
       THEN CaseNegotiate(data, userNumber, incomingMsg)
  ELSE IF InStage(data.users, userNumber, NameCollection)
       THEN CaseNameCollection(data, userNumber, incomingMsg)
  ELSE IF StartsWith(incomingMsg, OFFER)
       THEN CaseOffer(data, userNumber, incomingMsg)
  ELSE CaseDefault(data)

\* Handle as it would be with the name stage tested before the commands
HandleNameFirst(data, userNumber, Body) ==
  IF InStage(data.users, userNumber, NameCollection)
  THEN CaseNameCollection(data, userNumber, IncomingMsg(Body))
  ELSE Dispatch(data, userNumber, IncomingMsg(Body))

\* Handle registering the sender on first contact, whatever the text
HandleRegister(data, userNumber, Body) ==
  LET known == IF FindUser(data.users, userNumber) = 0
               THEN [data EXCEPT !.users = Append(@, NewUser(userNumber))]
               ELSE data
  IN [Dispatch(known, userNumber, IncomingMsg(Body)) EXCEPT !.wrote = TRUE]

\* the body of the handler, from the normalisation of the text to the reply
Handle(data, userNumber, Body) == Dispatch(data, userNumber, IncomingMsg(Body))

----------------------------------------------------------------------------
(* The texts sent in the model *)

\* the decimal numeral of a natural number
RECURSIVE Dec(_)
Dec(n) == IF n < 10 THEN <<Digits[n + 1]>>
          ELSE Dec(n \div 10) \o <<Digits[(n % 10) + 1]>>

JANE_DOE == <<"J","a","n","e"," ","D","o","e">>

\* texts every run sends: each command, texts no case matches, a short text
Commands ==
  { <<>>,
    <<"S","t","a","r","t">>,
    RECOMMEND,
    FARMING,
    <<" ","B","r","o","w","s","e"," ">>,
    VIEW,
    NEGOTIATE \o <<" ","x">>,
    OFFER \o <<" ","x","1">>,
    OFFER \o <<" ","-","1">>,
    <<"j","0","!">>,
    <<"x">> }
  \cup { VIEW \o <<" ">> \o Dec(n) : n \in 1..MaxId }
  \cup { Dec(n) : n \in 1..MaxId }
  \cup { NEGOTIATE \o <<" ">> \o Dec(n) : n \in 1..MaxId }

\* the texts of the runs with two users
Bodies ==
  Commands
  \cup { JANE_DOE }
  \cup { OFFER \o <<" ">> \o Dec(n) : n \in {8, 9, 13, 14} }

\* the texts of the runs with one user in a negotiation
SessionBodies ==
  Commands
  \cup { JANE_DOE,
         <<"o","'","N","e","i","l","-","x">>,
         <<"a","l">>,
         <<"a","\t","b">>,
         OFFER,
         <<"-">>,
         <<"j","4","n","e">> }
  \cup { OFFER \o <<" ">> \o Dec(n) : n \in 0..MaxOffer }

----------------------------------------------------------------------------
(* The state machine *)

NoRequest == [From |-> "", Body |-> <<>>]

\* nothing received, nothing answered
Idle ==
  /\ intact = TRUE
  /\ prev = file
  /\ req = NoRequest
  /\ twiml = <<>>
  /\ status = 0
  /\ branch = "none"
  /\ inflight = {}
  /\ running = {}
  /\ serial = file

Init ==
  /\ \E us \in InitialUsers : file = [tractors |-> Catalog(10), users |-> us]
  /\ Idle

\* app.post("/whatsapp"): one request, handled synchronously from readData()
\* to res.end(); writeData(data) replaces the file by the data in memory
\* the data.json that handling one request on the data leaves
Written(data, From, Body) ==
  LET r == Handle(data, From, Body) IN IF r.wrote THEN r.data ELSE data

\* the response: the segments and 200 from res.writeHead/res.end, or the 500
\* of the framework when the callback threw
Respond(r) ==
  /\ twiml' = IF r.threw THEN <<>> ELSE r.twiml
  /\ status' = IF r.threw THEN 500 ELSE 200
  /\ branch' = r.branch

Post(From, Body) ==
  LET data == file
      r    == Handle(data, From, Body)
  IN /\ intact
     /\ file' = IF r.wrote THEN r.data ELSE file
     /\ prev' = file
     /\ req' = [From |-> From, Body |-> Body]
     /\ Respond(r)
     /\ serial' = Written(serial, From, Body)
     /\ UNCHANGED <<intact, inflight, running>>

Next == \E From \in Phones, Body \in Bodies : Post(From, Body)

Spec == Init /\ [][Next]_vars

\* One user, "+1", who has sent "negotiate 1" and is asked for a name; the
\* price of item 1 ranges over 1..MaxPrice
InitSession ==
  /\ \E p \in 1..MaxPrice :
       file = [tractors |-> Catalog(p),
               users |-> << [phone |-> "+1",
                             currentNegotiation |->
                               Some([tractorId |-> 1, stage |-> NameCollection]),
                             name |-> Undefined] >>]
  /\ Idle

NextSession == \E Body \in SessionBodies : Post("+1", Body)

SpecSession == InitSession /\ [][NextSession]_vars

----------------------------------------------------------------------------
(* Requests in flight.  The server accepts requests while a callback runs; *)
(* the callback of app.post is synchronous (readFileSync, writeFileSync,   *)
(* no await), so the event loop starts the next one only after res.end().  *)

MaxInFlight == 2    \* SpecConcurrent: requests received and not yet answered

ConcurrentBodies ==
  { NEGOTIATE \o <<" ">> \o Dec(n) : n \in 1..2 } \cup { JANE_DOE }

InFlight == inflight \cup { c.req : c \in running }

\* a request arrives and waits for the event loop
Receive(From, Body) ==
  /\ Cardinality(inflight) + Cardinality(running) < MaxInFlight
  /\ [From |-> From, Body |-> Body] \notin InFlight
  /\ inflight' = inflight \cup { [From |-> From, Body |-> Body] }
  /\ UNCHANGED <<file, intact, prev, req, twiml, status, branch, running, serial>>

\* the event loop as it would be if the callback gave up control between
\* readData and writeData
EventLoopFreeAsync == TRUE

\* no callback is between its first line and res.end()
EventLoopFree == running = {}

\* the callback of a waiting request starts: const data = readData()
Load(r) ==
  /\ r \in inflight
  /\ EventLoopFree
  /\ intact
  /\ inflight' = inflight \ {r}
  /\ running' = running \cup { [req |-> r, data |-> file] }
  /\ UNCHANGED <<file, intact, prev, req, twiml, status, branch, serial>>

\* the callback runs the switch on the data it read, writes it back when its
\* case calls writeData, and responds
Finish(c) ==
  LET r == Handle(c.data, c.req.From, c.req.Body)
  IN /\ c \in running
     /\ file' = IF r.wrote THEN r.data ELSE file
     /\ prev' = c.data
     /\ req' = c.req
     /\ Respond(r)
     /\ serial' = Written(serial, c.req.From, c.req.Body)
     /\ running' = running \ {c}
     /\ UNCHANGED <<intact, inflight>>

NextConcurrent ==
  \/ \E From \in Phones, Body \in ConcurrentBodies : Receive(From, Body)
  \/ \E r \in inflight : Load(r)
  \/ \E c \in running : Finish(c)

SpecConcurrent == Init /\ [][NextConcurrent]_vars

----------------------------------------------------------------------------
(* Failures of the store: readData and writeData throw what fs throws, the *)
(* callback has no try/catch                                               *)

\* readData throws (the file cannot be read, or its text is not whole JSON):
\* the callback ends at line 50
ReadFails(From, Body) ==
  /\ prev' = file
  /\ req' = [From |-> From, Body |-> Body]
  /\ twiml' = <<>>
  /\ status' = 500
  /\ branch' = "readData"
  /\ UNCHANGED <<file, intact, inflight, running, serial>>

\* writeData throws: fs.writeFileSync rewrites data.json in place, so the
\* failure comes either before the file is opened for writing (it is whole) or
\* after it was truncated (it is not)
WriteFails(From, Body) ==
  /\ intact
  /\ Handle(file, From, Body).wrote
  /\ \E whole \in BOOLEAN : intact' = whole
  /\ prev' = file
  /\ req' = [From |-> From, Body |-> Body]
  /\ twiml' = <<>>
  /\ status' = 500
  /\ branch' = "writeData"
  /\ UNCHANGED <<file, inflight, running, serial>>

NextFaults ==
  \/ Next
  \/ \E From \in Phones, Body \in Bodies : ReadFails(From, Body)
  \/ \E From \in Phones, Body \in Bodies : WriteFails(From, Body)

SpecFaults == Init /\ [][NextFaults]_vars

----------------------------------------------------------------------------
(* What the properties below speak of: the last request and the sessions   *)
(* before (prev) and after (file) it                                       *)

Handled == branch # "none"

\* the normalised text of the last request
msg == IncomingMsg(req.Body)

HasSession(users, phone) == FindUser(users, phone) # 0

HasNegotiation(users, phone) ==
  /\ HasSession(users, phone)
  /\ users[FindUser(users, phone)].currentNegotiation # Null

\* the texts the switch matches as a command before it looks at the stage
IsStateless(m) ==
  \/ m \in {START, RECOMMEND, BROWSE} \cup UseCases
  \/ StartsWith(m, VIEW)
  \/ AllDigits(m)
IsCommand(m) == IsStateless(m) \/ StartsWith(m, NEGOTIATE)

ReplyKinds == { twiml[i].kind : i \in 1..Len(twiml) }

----------------------------------------------------------------------------
\* C1 as stated: in stage collecting_name every inbound text is routed to
\* name handling, never to a command handler.
C1_AllInputToNameHandling ==
  (Handled /\ InStage(prev.users, req.From, NameCollection))
    => branch = "name_collection"

\* C1 (amended): in stage collecting_name a text goes to name handling
\* exactly when the switch matches it as no command (start, recommend, a
\* category token, browse, view..., digit-only, negotiate...); "browse" sent
\* in collecting_name is answered with the catalog listing, not with the
\* invalid-name prompt, and leaves the stored sessions as they were.
C1_CommandsBeforeNameHandling ==
  (Handled /\ InStage(prev.users, req.From, NameCollection))
    => /\ (branch = "name_collection") <=> ~IsCommand(msg)
       /\ msg = BROWSE =>
            /\ twiml = <<Msg("tractors_for_sale", IdsOf(prev.tractors), 0, Undefined)>>
            /\ file = prev
            /\ InStage(file.users, req.From, NameCollection)

C1_Witness ==
  /\ InStage(prev.users, req.From, NameCollection)
  /\ msg = BROWSE
  /\ branch = "browse"
  /\ "invalid_name" \notin ReplyKinds

----------------------------------------------------------------------------
\* C2: after an offer is accepted the persisted session of that user has no
\* negotiation.
C2_AcceptClearsPersistedNegotiation ==
  (branch = "offer" /\ "deal_accepted" \in ReplyKinds)
    => ~HasNegotiation(file.users, req.From)

----------------------------------------------------------------------------
(* Offers: the last request was "offer <amount>" in stage offer_collection *)

\* the amount of the last request, as parseInt reads it
Amount == ParseInt(SplitAt1(msg))

\* the price of the item the user of the last request was negotiating
NegotiatedPrice ==
  LET u == prev.users[FindUser(prev.users, req.From)]
  IN FindTractor(prev.tractors, Some(u.currentNegotiation[1].tractorId))[1].price

OfferInOfferStage ==
  /\ Handled
  /\ InStage(prev.users, req.From, OfferCollection)
  /\ StartsWith(msg, OFFER)

IntegerOffer == OfferInOfferStage /\ Amount # NaN

DealAccepted == "deal_accepted" \in ReplyKinds
OfferTooLow  == "offer_too_low" \in ReplyKinds

Floor90(P) == (9 * P) \div 10
Ceil90(P)  == (9 * P + 9) \div 10

\* C3 as stated: an integer offer A for an item of price P is accepted if
\* and only if A >= floor(0.9 * P).
C3_AcceptedIffAtLeastFloor ==
  IntegerOffer => (DealAccepted <=> Amount[1] >= Floor90(NegotiatedPrice))

\* C3 (amended): an integer offer A for an item of price P is accepted if
\* and only if A >= 0.9 * P, that is A >= ceil(0.9 * P); when 0.9 * P is not
\* an integer the offer floor(0.9 * P) is rejected (P = 15: 13 is rejected,
\* 14 is accepted).
C3_AcceptedIffAtLeastNinetyPercent ==
  IntegerOffer =>
    /\ DealAccepted <=> Amount[1] >= Ceil90(NegotiatedPrice)
    /\ (NegotiatedPrice = 15 /\ Amount[1] = 13) => OfferTooLow
    /\ (NegotiatedPrice = 15 /\ Amount[1] = 14) => DealAccepted

C3_Witness ==
  /\ IntegerOffer
  /\ NegotiatedPrice = 15
  /\ Amount[1] = 13
  /\ OfferTooLow

\* C4: every integer offer >= ceil(0.9 * P) gets the deal-accepted reply;
\* every integer offer <= floor(0.9 * P) - 1 gets the offer-rejected reply and
\* the stage stays offer_collection; an offer of exactly 0.9 * P is accepted.
C4_InclusiveThreshold ==
  IntegerOffer =>
    /\ Amount[1] >= Ceil90(NegotiatedPrice) => (DealAccepted /\ ~OfferTooLow)
    /\ Amount[1] <= Floor90(NegotiatedPrice) - 1 =>
         /\ OfferTooLow /\ ~DealAccepted
         /\ InStage(file.users, req.From, OfferCollection)
    /\ 10 * Amount[1] = 9 * NegotiatedPrice => DealAccepted

C4_Witness ==
  /\ IntegerOffer
  /\ 10 * Amount[1] = 9 * NegotiatedPrice
  /\ DealAccepted

----------------------------------------------------------------------------
(* Names: the last request was sent in stage name_collection *)

InNameStage == Handled /\ InStage(prev.users, req.From, NameCollection)

\* only letters, white space, hyphens and apostrophes, and trimmed length >= 2
LooksLikeName(m) ==
  /\ \A i \in 1..Len(m) :
       IsLower(m[i]) \/ IsUpper(m[i]) \/ m[i] \in {" ", "\t", "\n", "\r", "-", "'"}
  /\ Len(Trim(m)) >= 2

\* the session of the user of the last request, before and after it
PrevUser == prev.users[FindUser(prev.users, req.From)]
FileUser == file.users[FindUser(file.users, req.From)]

NameAccepted ==
  /\ HasNegotiation(file.users, req.From)
  /\ FileUser.currentNegotiation =
       Some([tractorId |-> PrevUser.currentNegotiation[1].tractorId,
             stage |-> OfferCollection])
  /\ FileUser.name = Some(msg)

\* C5 as stated: in stage collecting_name every text of letters, spaces,
\* hyphens and apostrophes with trimmed length >= 2 is accepted (command
\* words included) and every other text leaves the negotiation unchanged.
C5_EveryNameLikeTextAccepted ==
  InNameStage =>
    IF LooksLikeName(msg) THEN NameAccepted
    ELSE FileUser.currentNegotiation = PrevUser.currentNegotiation

\* C5 (amended): in stage collecting_name, a text the switch matches as no
\* command is accepted when it is made only of letters, white space, hyphens
\* and apostrophes with trimmed length >= 2 (it sets the name to the
\* normalised text and advances the stage to offer_collection) and is
\* otherwise rejected with the negotiation and the name unchanged.  A text the switch matches as a command is never
\* taken as a name: "start", "browse" and "farming" leave the stage at
\* name_collection and set no name, and "negotiate <id>" for an id of the
\* catalog keeps the stage and replaces the item.
C5_NonCommandNameValidation ==
  InNameStage =>
    /\ (~IsCommand(msg) /\ LooksLikeName(msg)) =>
         (NameAccepted /\ "hello" \in ReplyKinds)
    /\ (~IsCommand(msg) /\ ~LooksLikeName(msg)) =>
         (file = prev /\ ReplyKinds = {"invalid_name"})
    /\ IsStateless(msg) => file = prev
    /\ StartsWith(msg, NEGOTIATE) =>
         /\ InStage(file.users, req.From, NameCollection)
         /\ FileUser.name = PrevUser.name
         /\ file # prev =>
              FindTractor(prev.tractors,
                          Some(FileUser.currentNegotiation[1].tractorId)) # Undefined

C5_Witness ==
  /\ InNameStage
  /\ msg = OFFER
  /\ NameAccepted

----------------------------------------------------------------------------
(* Negotiate and view *)

\* the last request was "negotiate <id>" for an id of the catalog
NegotiateHit ==
  /\ Handled
  /\ StartsWith(msg, NEGOTIATE)
  /\ FindTractor(prev.tractors, ParseInt(SplitAt1(msg))) # Undefined

\* the last request was "negotiate ..." with no id of the catalog
NegotiateMiss ==
  /\ Handled
  /\ StartsWith(msg, NEGOTIATE)
  /\ FindTractor(prev.tractors, ParseInt(SplitAt1(msg))) = Undefined

\* the last request was "view ..." or digits with no id of the catalog
ViewMiss ==
  /\ Handled
  /\ StartsWith(msg, VIEW) \/ AllDigits(msg)
  /\ FindTractor(prev.tractors, ParseInt(ViewArgument(msg))) = Undefined

RecordsOf(users, phone) == { i \in 1..Len(users) : users[i].phone = phone }

\* C6: "negotiate <id>" for an id of the catalog, from a user with no
\* session, with a session and no negotiation, or in stage offer_collection,
\* leaves that user with exactly one stored record, whose negotiation is
\* {tractorId = id, stage = name_collection}; the record is created on first
\* contact and the other records are untouched.
C6_NegotiateCreatesOrOverwrites ==
  (NegotiateHit /\ ~InStage(prev.users, req.From, NameCollection)) =>
    /\ Cardinality(RecordsOf(file.users, req.From)) = 1
    /\ FileUser.currentNegotiation =
         Some([tractorId |-> ParseInt(SplitAt1(msg))[1], stage |-> NameCollection])
    /\ Len(file.users) =
         Len(prev.users) + (IF HasSession(prev.users, req.From) THEN 0 ELSE 1)
    /\ \A i \in 1..Len(prev.users) :
         IF prev.users[i].phone = req.From
         THEN file.users[i].name = prev.users[i].name
         ELSE file.users[i] = prev.users[i]

C6_Witness ==
  /\ NegotiateHit
  /\ InStage(prev.users, req.From, OfferCollection)
  /\ PrevUser.currentNegotiation[1].tractorId = 1
  /\ FileUser.currentNegotiation =
       Some([tractorId |-> 2, stage |-> NameCollection])

\* C7: "view ..." or "negotiate ..." whose id is not in the catalog, or is no
\* number, is answered "not found" and leaves the stored sessions exactly as
\* they were.
C7_NotFoundChangesNothing ==
  (ViewMiss \/ NegotiateMiss) =>
    /\ twiml = <<Text("not_found")>>
    /\ file = prev

C7_Witness ==
  /\ NegotiateMiss
  /\ ~HasSession(prev.users, req.From)
  /\ ~HasSession(file.users, req.From)
  /\ twiml = <<Text("not_found")>>

----------------------------------------------------------------------------
\* the last request was an offer in stage offer_collection that is no
\* number or is below 0.9 * price
RejectedOffer ==
  /\ OfferInOfferStage
  /\ \/ Amount = NaN
     \/ Amount # NaN /\ 10 * Amount[1] < 9 * NegotiatedPrice

\* C8: a rejected offer leaves the stored session identical, still in stage
\* offer_collection, and the same offer sent again gets the same reply and
\* again changes nothing.
C8_RejectedOfferIsIdempotent ==
  RejectedOffer =>
    /\ file = prev
    /\ ReplyKinds \in {{"offer_too_low"}, {"invalid_number"}}
    /\ InStage(file.users, req.From, OfferCollection)
    /\ LET again == Handle(file, req.From, req.Body)
       IN /\ again.twiml = twiml
          /\ ~again.wrote
          /\ again.data = file

C8_Witness ==
  /\ RejectedOffer
  /\ Amount # NaN
  /\ OfferTooLow
  /\ file = prev

----------------------------------------------------------------------------
\* C9: for a user who is not in stage name_collection, start, recommend, a
\* category token, browse and view (or a digit-only text) never change the
\* stored sessions; "browse" from an unknown user creates no record.
C9_StatelessCommandsChangeNothing ==
  (Handled /\ ~InStage(prev.users, req.From, NameCollection) /\ IsStateless(msg))
    => file = prev

C9_Witness ==
  /\ branch = "browse"
  /\ msg = BROWSE
  /\ ~HasSession(prev.users, req.From)
  /\ ~HasSession(file.users, req.From)

----------------------------------------------------------------------------
\* C10: the stored collection holds at most one record per phone and each
\* record at most one negotiation.
C10_OneSessionPerUser ==
  /\ \A i, j \in 1..Len(file.users) :
       file.users[i].phone = file.users[j].phone => i = j
  /\ \A i \in 1..Len(file.users) : Len(file.users[i].currentNegotiation) <= 1

C10_Witness ==
  /\ NegotiateHit
  /\ HasNegotiation(prev.users, req.From)
  /\ Len(file.users) = 2
  /\ Cardinality(RecordsOf(file.users, req.From)) = 1

----------------------------------------------------------------------------
\* C11: every request is answered: the callback reaches res.end() with status
\* 200 and at least one reply segment, and no case throws (the offer case
\* always finds the negotiated item).
C11_EveryRequestIsAnswered ==
  Handled =>
    /\ status = 200
    /\ Len(twiml) >= 1
    /\ ~Handle(prev, req.From, req.Body).threw

C11_Witness ==
  /\ IntegerOffer
  /\ status = 200
  /\ Len(twiml) = 1
  /\ DealAccepted

----------------------------------------------------------------------------
\* C13: a digit-only text n gets the reply of "view n" and, like it, leaves
\* the stored sessions unchanged, in every stage; in stage offer_collection
\* it is a view request and no offer.
C13_DigitsAreView ==
  (Handled /\ AllDigits(msg)) =>
    LET view == VIEW \o <<" ">> \o msg
    IN /\ twiml = Handle(prev, req.From, view).twiml
       /\ ~Handle(prev, req.From, view).threw
       /\ Written(prev, req.From, view) = prev
       /\ file = prev
       /\ branch = "view"

C13_Witness ==
  /\ InStage(prev.users, req.From, OfferCollection)
  /\ AllDigits(msg)
  /\ branch = "view"
  /\ "details" \in ReplyKinds

----------------------------------------------------------------------------
\* the stage of a user: "none" without a record or without a negotiation
StageOf(users, phone) ==
  IF HasNegotiation(users, phone)
  THEN users[FindUser(users, phone)].currentNegotiation[1].stage
  ELSE "none"

\* C14: a request changes the stage of its sender only; "negotiate <id>" for
\* an id of the catalog lands in name_collection and is the only step out of
\* "no negotiation" and the only step from offer_collection back to
\* name_collection; the only step from name_collection to offer_collection
\* is a valid name, which keeps the item.
C14_StageSteps ==
  /\ NegotiateHit => StageOf(file.users, req.From) = NameCollection
  /\ \A p \in Phones :
       LET a == StageOf(prev.users, p)
           b == StageOf(file.users, p)
       IN a # b =>
            /\ p = req.From
            /\ a = "none" => (b = NameCollection /\ NegotiateHit)
            /\ (a = OfferCollection /\ b = NameCollection) => NegotiateHit
            /\ (a = NameCollection /\ b = OfferCollection) =>
                 /\ ~IsCommand(msg) /\ LooksLikeName(msg)
                 /\ FileUser.currentNegotiation[1].tractorId =
                      PrevUser.currentNegotiation[1].tractorId

C14_Witness ==
  /\ NegotiateHit
  /\ StageOf(prev.users, req.From) = OfferCollection
  /\ StageOf(file.users, req.From) = NameCollection

----------------------------------------------------------------------------
\* the last request matched no command and came from a user without a
\* negotiation
UnmatchedWithoutNegotiation ==
  /\ Handled
  /\ ~HasNegotiation(prev.users, req.From)
  /\ ~IsCommand(msg)

\* C15 as stated: such a request, "offer <amount>" included, gets the generic
\* help reply and changes nothing.
C15_UnmatchedGetsHelp ==
  UnmatchedWithoutNegotiation => (twiml = <<Text("help")>> /\ file = prev)

\* C15 (amended): such a request changes nothing; it gets the generic help
\* reply unless its text starts with "offer", which gets the "no active
\* negotiation" reply.
C15_UnmatchedGetsHelpOrNoNegotiation ==
  UnmatchedWithoutNegotiation =>
    /\ file = prev
    /\ status = 200
    /\ twiml = IF StartsWith(msg, OFFER)
               THEN <<Text("no_active_negotiation")>>
               ELSE <<Text("help")>>

C15_Witness ==
  /\ UnmatchedWithoutNegotiation
  /\ StartsWith(msg, OFFER)
  /\ Amount # NaN
  /\ twiml = <<Text("no_active_negotiation")>>

----------------------------------------------------------------------------
\* C16: an accepted name is stored as the trimmed text the user sent, with
\* its letter case.
C16_NameKeepsLetterCase ==
  (branch = "name_collection" /\ "hello" \in ReplyKinds)
    => FileUser.name = Some(Trim(req.Body))

----------------------------------------------------------------------------
\* C18: a request leaves the record of every other user as it was: same
\* place in data.users, same negotiation, same name; and it adds no record
\* for another phone.
C18_OtherUsersUntouched ==
  Handled =>
    /\ \A i \in 1..Len(prev.users) :
         prev.users[i].phone # req.From =>
           (i <= Len(file.users) /\ file.users[i] = prev.users[i])
    /\ \A i \in 1..Len(file.users) :
         file.users[i].phone # req.From => i <= Len(prev.users)

C18_Witness ==
  /\ Handled
  /\ file # prev
  /\ \E i \in 1..Len(prev.users) :
       /\ prev.users[i].phone # req.From
       /\ prev.users[i].currentNegotiation # Null
       /\ prev.users[i].name # Undefined
       /\ file.users[i] = prev.users[i]

----------------------------------------------------------------------------
\* C19: every stored record in stage offer_collection has a name, and that
\* name passes isValidName; the deal-accepted reply names the user.
C19_OfferStageHasName ==
  /\ \A i \in 1..Len(file.users) :
       (/\ file.users[i].currentNegotiation # Null
        /\ file.users[i].currentNegotiation[1].stage = OfferCollection)
         => (/\ file.users[i].name # Undefined
             /\ isValidName(file.users[i].name[1]))
  /\ DealAccepted => twiml[1].name # Undefined

C19_Witness ==
  /\ DealAccepted
  /\ twiml[1].name = Some(<<"o","'","n","e","i","l","-","x">>)
  /\ FileUser.name = twiml[1].name

----------------------------------------------------------------------------
\* C20: every stored negotiation has stage name_collection or
\* offer_collection and a tractorId that an item of the (unchanged) catalog
\* has.
C20_NegotiationsAreWellFormed ==
  /\ file.tractors = prev.tractors
  /\ \A i \in 1..Len(file.users) :
       file.users[i].currentNegotiation # Null =>
         /\ file.users[i].currentNegotiation[1].stage
              \in {NameCollection, OfferCollection}
         /\ FindTractor(file.tractors,
                        Some(file.users[i].currentNegotiation[1].tractorId))
              # Undefined

C20_Witness ==
  /\ IntegerOffer
  /\ OfferTooLow
  /\ twiml[1].amount = MinimumOffer(NegotiatedPrice)
  /\ PrevUser.currentNegotiation[1].tractorId = 2

----------------------------------------------------------------------------
\* C12: requests in flight at once are handled one after the other: at most
\* one callback is between its read and its response, the file it read is
\* still the file when it writes back, and the stored data is what handling
\* the answered requests one by one, in the order of their responses, gives
\* (no update is lost).
C12_RequestsAreSerialized ==
  /\ Cardinality(running) <= 1
  /\ \A c \in running : c.data = file
  /\ file = serial

C12_Witness ==
  /\ Handled
  /\ \E c \in running, q \in inflight :
       /\ q.From = c.req.From
       /\ Handle(c.data, c.req.From, c.req.Body).wrote
       /\ Handle(Written(file, c.req.From, c.req.Body), q.From, q.Body).wrote

----------------------------------------------------------------------------
\* C17: when readData or writeData fails, no reply is sent (the failure
\* leaves the callback) and data.json is left as it was before the request.
C17_FailureLeavesStoreAsItWas ==
  status = 500 => (twiml = <<>> /\ file = prev /\ intact)

====
